---- MODULE Spec2Model ----
(***************************************************************************)
(* Model of the robodash telemetry pipeline: the EMU Black protocol        *)
(* decoder (src/data/emu_protocol.py), the VehicleState snapshot           *)
(* (src/data/models.py), the data sources built on them                    *)
(* (src/data/can_source.py, src/data/mock_source.py), the application that *)
(* picks and starts one (src/core/app.py), the value smoother             *)
(* (src/utils/smoothing.py) and the unit converter                         *)
(* (src/utils/unit_converter.py).                                          *)
(*                                                                         *)
(* Numbers are exact scaled integers instead of floats:                    *)
(*   time              100 ms                                              *)
(*   speed             0.1 km/h       map_kpa        0.1 kPa               *)
(*   boost_pressure    0.001 bar      oil/fuel_pressure 0.01 bar           *)
(*   coolant/oil_temp  0.1 C          intake/egt     1 C                   *)
(*   lambda_value      1/10000        afr            1/100000              *)
(*   lambda_target     0.01           tps            0.1 %                 *)
(*   injector_duty     1/120000 %     battery_voltage 0.1 V                *)
(*   fuel_level        1 %                                                 *)
(***************************************************************************)
EXTENDS Integers, Sequences, FiniteSets, TLC

\* ------------------------------------------------------------------ bounds
MaxTime == 12        \* the clock stops advancing here
NumObjs == 3         \* heap cells for VehicleState objects
MaxThreads == 2      \* reader threads that can be alive at once
MaxAudio == 2        \* audio threads that can be alive at once
MaxEma == 1          \* averaging steps of one filter before it is reset

\* ------------------------------------------------------- program constants
FRAME_COUNT == 8
BASE_ID == 1536              \* 0x600
RECEIVE_WINDOW == 10         \* 1.0 s
INF == 999999                \* float('inf')
CAN_TIMEOUT_MS == 10         \* timeout_ms: int = 1000
POLL_INTERVAL == 1           \* self._timeout_timer.start(100)
JOIN_TIMEOUT == 10           \* self._thread.join(timeout=1.0)
None == 0                    \* Python None, as a reference

VARIABLES
    now,                 \* time.time()
    frame_data,          \* EMUProtocolDecoder._frame_data (its keys)
    last_complete_time,  \* EMUProtocolDecoder._last_complete_time
    heap,                \* the VehicleState objects alive, by reference
    state,               \* EMUProtocolDecoder._state (a reference)
    ret,                 \* what the last process_message call returned
    last_state,          \* DataSource._last_state: the state handed on last
    last,                \* history: what the last step was
    emittedSnap,         \* history: the fields of last_state when it was returned
    cycleSeen,           \* history: distinct indices accepted in the current cycle
    sinceReset,          \* history: distinct indices accepted since the last reset
    doneAt,              \* history: when the last cycle completed, -1 if none did
    kind,                \* which DataSource this is: "can", "mock" or "none"
    timeout_ms,          \* CANDataSource._timeout_ms, in units of 100 ms
    running,             \* CANDataSource._running
    connected,           \* DataSource._connected
    bus,                 \* CANDataSource._bus: None or the open bus
    thread,              \* CANDataSource._thread: None or a reader thread
    timer_active,        \* the source's QTimer is active
    nextPoll,            \* when the timeout timer fires next
    readerPc,            \* where each reader thread is in _read_loop
    rxq,                 \* frames waiting in the bus receive queue
    mainpc,              \* the main thread: "idle", or "joining" inside stop()
    joinStart,           \* when the join of stop() began
    sound,               \* MockDataSource._engine_sound is not None
    es_running,          \* EngineSoundSynthesizer._running
    audioThreads,        \* audio threads alive
    emitted,             \* the signals the last step emitted
    lastConn,            \* history: the value of the last connection_changed
    connParity,          \* history: parity of the number of connection_changed
    cycleWhileDown,      \* history: a cycle completed while disconnected
    update_interval,     \* MockDataSource._update_interval, in ms
    sim,                 \* MockDataSource's simulation fields (_time, _gear, ...)
    mock_state,          \* the VehicleState _generate_data built last
    pre_shift,           \* history: the rpm of the last tick before its gear check
    configs,             \* ValueSmoother._configs
    filters,             \* ValueSmoother._filters
    sm_result,           \* how the last smoother call ended, and what it returned
    conv,                \* the UnitConverter, and the round trip it made last
    appPc                \* DashboardApp: how far the application has come

decVars == <<now, frame_data, last_complete_time, heap, state, ret, last_state,
             last, emittedSnap, cycleSeen, sinceReset, doneAt>>

srcVars == <<kind, timeout_ms, running, connected, bus, thread, timer_active, nextPoll,
             readerPc, rxq, mainpc, joinStart, sound, es_running, audioThreads,
             emitted, lastConn, connParity, cycleWhileDown>>

simVars == <<update_interval, sim, mock_state, pre_shift>>

smVars == <<configs, filters, sm_result>>

ObjIds == 1..NumObjs
Null == [null |-> TRUE]
Indices == 0..(FRAME_COUNT - 1)

\* ------------------------------------------------------------ VehicleState
VehicleState(t) ==
    [rpm |-> 0, speed |-> 0, gear |-> 0,
     boost_pressure |-> 0, map_kpa |-> 1013, oil_pressure |-> 0,
     fuel_pressure |-> 0,
     coolant_temp |-> 0, oil_temp |-> 0, intake_temp |-> 0,
     egt1 |-> 0, egt2 |-> 0,
     afr |-> 1470000, lambda_value |-> 10000, lambda_target |-> 100,
     tps |-> 0, injector_duty |-> 0, ignition_angle |-> 0,
     battery_voltage |-> 120, fuel_level |-> 100,
     flags |-> 0, warnings |-> 0, timestamp |-> t]

FreeRef(h) == CHOOSE o \in ObjIds : h[o] = Null /\ \A p \in ObjIds : h[p] = Null => o <= p

\* Python frees an object once no reference to it is left, and references are
\* only ever compared for identity: after every step the decoder's state object
\* is numbered 1 and the state handed on last, when it is another object, 2.
Canon(h, st, ls) ==
    [heap |-> [o \in ObjIds |-> IF o = 1 THEN h[st]
                                ELSE IF o = 2 /\ ls \notin {None, st} THEN h[ls]
                                ELSE Null],
     state |-> 1,
     last_state |-> IF ls = None THEN None ELSE IF ls = st THEN 1 ELSE 2]

copy_alias(h, r) == [ref |-> r, heap |-> h]

\* VehicleState.copy(), on the heap
copy(h, r) ==
    LET n == FreeRef(h)
        s == h[r]
    IN [ref |-> n,
        heap |-> [h EXCEPT ![n] =
            [rpm |-> s.rpm, speed |-> s.speed, gear |-> s.gear,
             boost_pressure |-> s.boost_pressure, map_kpa |-> s.map_kpa,
             oil_pressure |-> s.oil_pressure, fuel_pressure |-> s.fuel_pressure,
             coolant_temp |-> s.coolant_temp, oil_temp |-> s.oil_temp,
             intake_temp |-> s.intake_temp, egt1 |-> s.egt1, egt2 |-> s.egt2,
             afr |-> s.afr, lambda_value |-> s.lambda_value,
             lambda_target |-> s.lambda_target, tps |-> s.tps,
             injector_duty |-> s.injector_duty,
             ignition_angle |-> s.ignition_angle,
             battery_voltage |-> s.battery_voltage,
             fuel_level |-> s.fuel_level, flags |-> s.flags,
             warnings |-> s.warnings, timestamp |-> s.timestamp]]]

\* ------------------------------------------------------------ struct.unpack
\* off is the 0-based byte offset of the Python code.
U8(data, off) == data[off + 1]
I8(data, off) == IF data[off + 1] >= 128 THEN data[off + 1] - 256 ELSE data[off + 1]
U16(data, off) == data[off + 1] + 256 * data[off + 2]
I16(data, off) == IF U16(data, off) >= 32768 THEN U16(data, off) - 65536 ELSE U16(data, off)
Min(a, b) == IF a <= b THEN a ELSE b

\* ------------------------------------------------------------ frame decoders
decode_frame_0(s, data) ==
    [s EXCEPT !.rpm = U16(data, 0),
              !.tps = U8(data, 2) * 5,
              !.intake_temp = I8(data, 3),
              !.map_kpa = U16(data, 4),
              !.boost_pressure = U16(data, 4) - 1013]

\* _decode_frame_1 recomputing the duty whatever the rpm is
decode_frame_1_unguarded(s, data) ==
    LET inj_pw == U16(data, 0)
        lam == U16(data, 4)
    IN [s EXCEPT !.lambda_target = U8(data, 2) + 50,
                 !.lambda_value = lam,
                 !.fuel_pressure = U16(data, 6),
                 !.afr = IF lam > 0 THEN lam * 147 ELSE s.afr,
                 !.injector_duty = Min(100 * 120000, inj_pw * s.rpm)]

decode_frame_1(s, data) ==
    LET inj_pw == U16(data, 0)
        lam == U16(data, 4)
    IN [s EXCEPT !.lambda_target = U8(data, 2) + 50,
                 !.lambda_value = lam,
                 !.fuel_pressure = U16(data, 6),
                 !.afr = IF lam > 0 THEN lam * 147 ELSE s.afr,
                 !.injector_duty = IF s.rpm > 0
                                   THEN Min(100 * 120000, inj_pw * s.rpm)
                                   ELSE s.injector_duty]

decode_frame_2(s, data) ==
    [s EXCEPT !.speed = U16(data, 0),
              !.gear = I8(data, 2),
              !.ignition_angle = I8(data, 3),
              !.battery_voltage = U8(data, 4)]

decode_frame_3(s, data) ==
    [s EXCEPT !.coolant_temp = I16(data, 0),
              !.oil_temp = I16(data, 2)]

decode_frame_4(s, data) ==
    [s EXCEPT !.oil_pressure = U16(data, 0),
              !.egt1 = U16(data, 2),
              !.egt2 = U16(data, 4)]

decode_frame_5(s, data) ==
    [s EXCEPT !.flags = U8(data, 0),
              !.warnings = U16(data, 1)]

decode_frame_6(s, data) == s

decode_frame_7(s, data) == s

decode_frame(s, frame_index, data) ==
    CASE frame_index = 0 -> decode_frame_0(s, data)
      [] frame_index = 1 -> decode_frame_1(s, data)
      [] frame_index = 2 -> decode_frame_2(s, data)
      [] frame_index = 3 -> decode_frame_3(s, data)
      [] frame_index = 4 -> decode_frame_4(s, data)
      [] frame_index = 5 -> decode_frame_5(s, data)
      [] frame_index = 6 -> decode_frame_6(s, data)
      [] frame_index = 7 -> decode_frame_7(s, data)
      [] OTHER -> s

is_emu_frame_inclusive(arbitration_id) ==
    BASE_ID <= arbitration_id /\ arbitration_id <= BASE_ID + FRAME_COUNT

is_emu_frame(arbitration_id) ==
    BASE_ID <= arbitration_id /\ arbitration_id < BASE_ID + FRAME_COUNT

valid_dlc_at_least(data) == Len(data) >= 8

valid_dlc(data) == Len(data) = 8

cycle_complete_early(fd) == Cardinality(fd) >= FRAME_COUNT - 1

cycle_complete(fd) == Cardinality(fd) >= FRAME_COUNT

stamp_reinit(h, st) == [h EXCEPT ![st] = VehicleState(now)]

\* self._state.timestamp = time.time()
stamp(h, st) == [h EXCEPT ![st].timestamp = now]

decoder_reset_keep(fd, h) ==
    LET n == FreeRef(h)
    IN [frame_data |-> fd, state |-> n,
        heap |-> [h EXCEPT ![n] = VehicleState(now)]]

\* decoder.reset() as a function of the decoder's fields
decoder_reset(fd, h) ==
    LET n == FreeRef(h)
    IN [frame_data |-> {}, state |-> n,
        heap |-> [h EXCEPT ![n] = VehicleState(now)]]

\* process_message as a function of the decoder's fields: the decoder after
\* the call, and the reference returned (None when nothing is returned).
process_message(fd, lct, h, st, arbitration_id, data) ==
    IF ~is_emu_frame(arbitration_id) \/ ~valid_dlc(data)
    THEN [frame_data |-> fd, last_complete_time |-> lct, heap |-> h, ret |-> None]
    ELSE LET frame_index == arbitration_id - BASE_ID
             fd1 == fd \cup {frame_index}
             h1 == [h EXCEPT ![st] = decode_frame(h[st], frame_index, data)]
         IN IF cycle_complete(fd1)
            THEN LET h2 == stamp(h1, st)
                     c == copy(h2, st)
                 IN [frame_data |-> {}, last_complete_time |-> now,
                     heap |-> c.heap, ret |-> c.ref]
            ELSE [frame_data |-> fd1, last_complete_time |-> lct,
                  heap |-> h1, ret |-> None]

is_receiving_le ==
    (IF last_complete_time = 0 THEN INF ELSE now - last_complete_time) <= RECEIVE_WINDOW

time_since_last_complete ==
    IF last_complete_time = 0 THEN INF ELSE now - last_complete_time

is_receiving == time_since_last_complete < RECEIVE_WINDOW

\* ------------------------------------------------------------------ inputs
PayloadA == <<232, 3, 3, 20, 245, 3, 44, 1>>
PayloadB == <<0, 0, 255, 255, 0, 0, 255, 255>>
Short == <<1, 2, 3, 4, 5, 6, 7>>
Long == <<1, 2, 3, 4, 5, 6, 7, 8, 9>>
Ids == (BASE_ID - 1)..(BASE_ID + FRAME_COUNT)
Frame(id, data) == [id |-> id, data |-> data]
Frames ==
    {Frame(id, PayloadA) : id \in Ids}
    \cup {Frame(BASE_ID, PayloadB)}
    \cup {Frame(id, d) : id \in Ids, d \in {Short, Long}}
TimeFrames == {Frame(id, PayloadA) : id \in BASE_ID..(BASE_ID + 7)}
FieldFrames ==
    {Frame(id, PayloadA) : id \in BASE_ID..(BASE_ID + 7)}
    \cup {Frame(BASE_ID, PayloadB)}
TimeSteps == {5}
FieldTimeSteps == {10}
T0 == 1

InRange(id) == id \in BASE_ID..(BASE_ID + 7)
Accepted(f) == InRange(f.id) /\ Len(f.data) = 8

\* ------------------------------------------------------- decoder operations
NoSignal == [conn |-> "none", data |-> FALSE, error |-> FALSE]
Tids == 1..MaxThreads

\* DataSource.__init__, CANDataSource.__init__, MockDataSource.__init__
SrcInitFields ==
    /\ running = FALSE
    /\ connected = FALSE
    /\ bus = None
    /\ thread = None
    /\ timer_active = FALSE
    /\ nextPoll = 0
    /\ readerPc = [t \in Tids |-> "none"]
    /\ rxq = 0
    /\ mainpc = "idle"
    /\ joinStart = 0
    /\ es_running = FALSE
    /\ audioThreads = 0
    /\ emitted = NoSignal
    /\ lastConn = "none"
    /\ connParity = 0
    /\ cycleWhileDown = FALSE

DecFields ==
    /\ now = T0
    /\ frame_data = {}
    /\ last_complete_time = 0
    /\ heap = [o \in ObjIds |-> IF o = 1 THEN VehicleState(T0) ELSE Null]
    /\ state = 1
    /\ ret = None
    /\ last_state = None
    /\ last = "init"
    /\ emittedSnap = Null
    /\ cycleSeen = {}
    /\ sinceReset = {}
    /\ doneAt = -1

\* the fields of the simulator, the smoother and the application while
\* none of them has been constructed
Unbuilt ==
    /\ update_interval = 0
    /\ sim = Null
    /\ mock_state = Null
    /\ pre_shift = Null
    /\ configs = Null
    /\ filters = Null
    /\ sm_result = Null /\ conv = Null
    /\ appPc = "none"

DecInit ==
    /\ DecFields
    /\ SrcInitFields
    /\ timeout_ms = CAN_TIMEOUT_MS
    /\ kind = "none"
    /\ sound = FALSE
    /\ Unbuilt

\* decoder.process_message(id, data), the caller keeping the returned state
ProcessMessage(id, data) ==
    LET r == process_message(frame_data, last_complete_time, heap, state, id, data)
        c == Canon(r.heap, state, IF r.ret = None THEN last_state ELSE r.ret)
        f == Frame(id, data)
        idx == id - BASE_ID
    IN /\ frame_data' = r.frame_data
       /\ last_complete_time' = r.last_complete_time
       /\ ret' = IF r.ret = None THEN None ELSE c.last_state
       /\ last_state' = c.last_state
       /\ state' = c.state
       /\ heap' = c.heap
       /\ emittedSnap' = IF r.ret = None THEN emittedSnap ELSE r.heap[r.ret]
       /\ last' = IF Accepted(f) THEN "accepted"
                  ELSE IF InRange(id) THEN "bad_dlc"
                  ELSE IF Len(data) = 8 THEN "bad_id" ELSE "bad_id_dlc"
       /\ cycleSeen' = IF ~Accepted(f) THEN cycleSeen
                       ELSE IF cycleSeen = Indices THEN {idx}
                       ELSE cycleSeen \cup {idx}
       /\ sinceReset' = IF Accepted(f) THEN sinceReset \cup {idx}
                        ELSE sinceReset
       /\ doneAt' = IF r.ret # None THEN now ELSE doneAt
       /\ UNCHANGED <<now, srcVars, simVars, smVars, conv, appPc>>

\* decoder.reset()
reset ==
    LET r == decoder_reset(frame_data, heap)
        c == Canon(r.heap, r.state, last_state)
    IN /\ frame_data' = r.frame_data
       /\ state' = c.state
       /\ heap' = c.heap
       /\ last_state' = c.last_state
       /\ ret' = None
       /\ last' = "reset"
       /\ cycleSeen' = {}
       /\ sinceReset' = {}
       /\ UNCHANGED <<now, last_complete_time, emittedSnap, doneAt, srcVars,
                    simVars, smVars, conv, appPc>>

\* the wall clock moves on
AdvanceTime(d) ==
    /\ now + d <= MaxTime
    /\ now' = now + d
    /\ last' = "time"
    /\ ret' = None
    /\ UNCHANGED <<frame_data, last_complete_time, heap, state, last_state,
                   emittedSnap, cycleSeen, sinceReset, doneAt, srcVars,
                   simVars, smVars, conv, appPc>>

\* the decoder fed with frames of any id and length
DecNext ==
    \/ \E f \in Frames : ProcessMessage(f.id, f.data)
    \/ reset

\* the decoder fed with well-formed frames while time passes
TimeNext ==
    \/ \E f \in TimeFrames : ProcessMessage(f.id, f.data)
    \/ reset
    \/ \E d \in TimeSteps : AdvanceTime(d)

\* the decoder fed with frames that differ in their payloads
FieldNext ==
    \/ \E f \in FieldFrames : ProcessMessage(f.id, f.data)
    \/ reset
    \/ \E d \in FieldTimeSteps : AdvanceTime(d)

vars == <<decVars, srcVars, simVars, smVars, conv, appPc>>

Init == DecInit

Next == DecNext

Spec == Init /\ [][Next]_vars

SpecTime == Init /\ [][TimeNext]_vars

SpecFields == Init /\ [][FieldNext]_vars

\* a frame 2 whose gear byte is 7
PayloadC == <<232, 3, 7, 20, 245, 3, 44, 1>>

\* well-formed frames, among them a frame 0 with throttle byte 255, a frame 1
\* with raw lambda 0 and a frame 2 with gear byte 7
ByteFrames ==
    {Frame(id, PayloadA) : id \in BASE_ID..(BASE_ID + 7)}
    \cup {Frame(BASE_ID, PayloadB), Frame(BASE_ID + 1, PayloadB),
          Frame(BASE_ID + 2, PayloadC)}

\* the decoder fed with frames that carry extreme byte values
ByteNext == \E f \in ByteFrames : ProcessMessage(f.id, f.data)

SpecBytes == Init /\ [][ByteNext]_vars

\* ============================================================ data sources

\* DataSource._set_connected: the new status and whether the signal is emitted
set_connected_always(cur, new) == [connected |-> new, emit |-> TRUE]

set_connected(cur, new) == [connected |-> new, emit |-> cur # new]

\* CANDataSource._check_timeout: the status to set, or "keep"
check_timeout_no_recover(recv, conn) ==
    IF ~recv /\ conn THEN "false" ELSE "keep"

check_timeout(recv, conn) ==
    IF ~recv /\ conn THEN "false"
    ELSE IF recv /\ ~conn THEN "true"
    ELSE "keep"

ConnName(b) == IF b THEN "true" ELSE "false"

\* the effect of _set_connected(new) on the source and on the signal history
SetConnected(new, data, error) ==
    LET sc == set_connected(connected, new)
    IN /\ connected' = sc.connected
       /\ emitted' = [conn |-> IF sc.emit THEN ConnName(new) ELSE "none",
                      data |-> data, error |-> error]
       /\ lastConn' = IF sc.emit THEN ConnName(new) ELSE lastConn
       /\ connParity' = IF sc.emit THEN 1 - connParity ELSE connParity

NoConnSignal(data, error) ==
    /\ emitted' = [conn |-> "none", data |-> data, error |-> error]
    /\ UNCHANGED <<connected, lastConn, connParity>>

decoderVars == <<frame_data, last_complete_time, heap, state, last_state,
                 emittedSnap, cycleSeen, sinceReset, doneAt>>
mockVars == <<sound, es_running, audioThreads>>

ThreadAlive == thread # None /\ readerPc[thread] # "none"

\* threading.Thread(...).start(): the new thread is thread 1, a reader that
\* outlived its source's stop() moves on to the next number
spawn(pcs) ==
    [t \in Tids |-> IF t = 1 THEN "check"
                    ELSE IF t = 2 /\ pcs[2] = "none" THEN pcs[1]
                    ELSE pcs[t]]

start_failure_silent == [error |-> FALSE, connected |-> FALSE]

\* CANDataSource.start(), the handler of can.CanError: the signal emitted and
\* the status set
start_failure == [error |-> TRUE, connected |-> FALSE]

\* CANDataSource.start()
CanStart ==
    /\ kind = "can" /\ mainpc = "idle"
    /\ ret' = None
    /\ IF running
       THEN /\ last' = "start_again"
            /\ NoConnSignal(FALSE, FALSE)
            /\ UNCHANGED <<decoderVars, running, bus, thread, timer_active,
                           nextPoll, readerPc, rxq, cycleWhileDown>>
       ELSE \/ /\ readerPc[1] = "none" \/ readerPc[2] = "none"
               /\ LET r == decoder_reset(frame_data, heap)
                      c == Canon(r.heap, r.state, last_state)
                  IN /\ frame_data' = r.frame_data
                     /\ state' = c.state
                     /\ heap' = c.heap
                     /\ last_state' = c.last_state
               /\ cycleSeen' = {}
               /\ sinceReset' = {}
               /\ bus' = 1
               /\ rxq' = 0
               /\ running' = TRUE
               /\ thread' = 1
               /\ readerPc' = spawn(readerPc)
               /\ timer_active' = TRUE
               /\ nextPoll' = now + POLL_INTERVAL
               /\ SetConnected(TRUE, FALSE, FALSE)
               /\ cycleWhileDown' = FALSE
               /\ last' = "start"
               /\ UNCHANGED <<last_complete_time, emittedSnap, doneAt>>
            \/ /\ SetConnected(start_failure.connected, FALSE, start_failure.error)
               /\ last' = "start_failed"
               /\ UNCHANGED <<decoderVars, running, bus, thread, timer_active,
                              nextPoll, readerPc, rxq, cycleWhileDown>>
    /\ UNCHANGED <<now, kind, timeout_ms, mainpc, joinStart, mockVars, simVars, smVars, conv>>

\* the end of CANDataSource.stop(): the bus is shut down, the status cleared
StopFinish ==
    /\ bus' = None
    /\ rxq' = 0
    /\ readerPc' = [t \in Tids |->
                      IF readerPc[t] = "recv" THEN "recv_closed" ELSE readerPc[t]]
    /\ SetConnected(FALSE, FALSE, FALSE)
    /\ mainpc' = "idle"
    /\ joinStart' = 0
    /\ cycleWhileDown' = FALSE

\* CANDataSource.stop() up to the join of the reader thread
CanStop ==
    /\ kind = "can" /\ mainpc = "idle"
    /\ ret' = None
    /\ last' = IF running THEN "stop" ELSE "stop_again"
    /\ running' = FALSE
    /\ timer_active' = FALSE
    /\ IF ThreadAlive
       THEN /\ mainpc' = "joining"
            /\ joinStart' = now
            /\ NoConnSignal(FALSE, FALSE)
            /\ UNCHANGED <<bus, rxq, readerPc, cycleWhileDown>>
       ELSE StopFinish
    /\ nextPoll' = 0
    /\ UNCHANGED <<now, kind, timeout_ms, decoderVars, thread, mockVars, simVars, smVars, conv>>

\* the join returns: the thread has ended or 1.0 s has passed
CanStopJoined ==
    /\ kind = "can" /\ mainpc = "joining"
    /\ ~ThreadAlive \/ now - joinStart >= JOIN_TIMEOUT
    /\ ret' = None
    /\ last' = "stop_joined"
    /\ StopFinish
    /\ UNCHANGED <<now, kind, timeout_ms, decoderVars, running, thread, timer_active,
                   nextPoll, mockVars, simVars, smVars, conv, appPc>>

\* _read_loop: the while condition
ReaderCheck(t) ==
    /\ kind = "can" /\ readerPc[t] = "check"
    /\ readerPc' = [readerPc EXCEPT ![t] =
                      IF running /\ bus # None THEN "recv" ELSE "none"]
    /\ ret' = None
    /\ last' = "other"
    /\ NoConnSignal(FALSE, FALSE)
    /\ UNCHANGED <<now, kind, timeout_ms, decoderVars, running, bus, thread, timer_active,
                   nextPoll, rxq, mainpc, joinStart, mockVars, cycleWhileDown,
                   simVars, smVars, conv, appPc>>

\* _read_loop: recv returns a frame, which is decoded and, when it completes
\* a cycle, emitted
ReaderFrame(t) ==
    /\ kind = "can" /\ readerPc[t] = "recv" /\ rxq > 0
    /\ LET id == BASE_ID + FRAME_COUNT - rxq
           r == process_message(frame_data, last_complete_time, heap, state,
                                id, PayloadA)
           c == Canon(r.heap, state, IF r.ret = None THEN last_state ELSE r.ret)
       IN /\ frame_data' = r.frame_data
          /\ last_complete_time' = r.last_complete_time
          /\ ret' = IF r.ret = None THEN None ELSE c.last_state
          /\ last_state' = c.last_state
          /\ state' = c.state
          /\ heap' = c.heap
          /\ emittedSnap' = IF r.ret = None THEN emittedSnap ELSE r.heap[r.ret]
          /\ cycleSeen' = IF cycleSeen = Indices THEN {id - BASE_ID}
                          ELSE cycleSeen \cup {id - BASE_ID}
          /\ sinceReset' = sinceReset \cup {id - BASE_ID}
          /\ doneAt' = IF r.ret # None THEN now ELSE doneAt
          /\ NoConnSignal(r.ret # None, FALSE)
          /\ cycleWhileDown' = (cycleWhileDown \/ (r.ret # None /\ ~connected /\ running))
    /\ rxq' = rxq - 1
    /\ readerPc' = [readerPc EXCEPT ![t] = "check"]
    /\ last' = "other"
    /\ UNCHANGED <<now, kind, timeout_ms, running, bus, thread, timer_active, nextPoll,
                   mainpc, joinStart, mockVars, simVars, smVars, conv, appPc>>

\* _read_loop: recv times out and returns None
ReaderIdle(t) ==
    /\ kind = "can" /\ readerPc[t] = "recv" /\ rxq = 0
    /\ readerPc' = [readerPc EXCEPT ![t] = "check"]
    /\ ret' = None
    /\ last' = "other"
    /\ NoConnSignal(FALSE, FALSE)
    /\ UNCHANGED <<now, kind, timeout_ms, decoderVars, running, bus, thread, timer_active,
                   nextPoll, rxq, mainpc, joinStart, mockVars, cycleWhileDown,
                   simVars, smVars, conv, appPc>>

\* _read_loop: recv raises because the bus was shut down under it
ReaderError(t) ==
    /\ kind = "can" /\ readerPc[t] = "recv_closed"
    /\ readerPc' = [readerPc EXCEPT ![t] = "check"]
    /\ ret' = None
    /\ last' = "other"
    /\ \E canError \in BOOLEAN : NoConnSignal(FALSE, canError /\ running)
    /\ UNCHANGED <<now, kind, timeout_ms, decoderVars, running, bus, thread, timer_active,
                   nextPoll, rxq, mainpc, joinStart, mockVars, cycleWhileDown,
                   simVars, smVars, conv, appPc>>

\* the ECU streams one cycle of frames, index 0 to 7, onto the open bus
EcuCycle ==
    /\ kind = "can" /\ bus # None /\ rxq = 0
    /\ rxq' = FRAME_COUNT
    /\ ret' = None
    /\ last' = "other"
    /\ NoConnSignal(FALSE, FALSE)
    /\ UNCHANGED <<now, kind, timeout_ms, decoderVars, running, bus, thread, timer_active,
                   nextPoll, readerPc, mainpc, joinStart, mockVars, cycleWhileDown,
                   simVars, smVars, conv, appPc>>

\* CANDataSource._check_timeout, called by the timer every 100 ms
CheckTimeout ==
    /\ kind = "can" /\ mainpc = "idle" /\ timer_active /\ now >= nextPoll
    /\ nextPoll' = now + POLL_INTERVAL
    /\ ret' = None
    /\ last' = "poll"
    /\ LET to == check_timeout(is_receiving, connected)
       IN IF to = "keep" THEN NoConnSignal(FALSE, FALSE)
          ELSE SetConnected(to = "true", FALSE, FALSE)
    /\ cycleWhileDown' = FALSE
    /\ UNCHANGED <<now, kind, timeout_ms, decoderVars, running, bus, thread, timer_active,
                   readerPc, rxq, mainpc, joinStart, mockVars,
                   simVars, smVars, conv, appPc>>

\* 100 ms pass; a due timer fires first, a join does not outlast its thread
\* or its timeout, and a reader that has something to do does it sooner (it
\* can wait inside recv)
Tick ==
    /\ kind = "can"
    /\ now + 1 <= MaxTime
    /\ \A t \in Tids : readerPc[t] # "check"
    /\ rxq > 0 => \A t \in Tids : readerPc[t] # "recv"
    /\ ~(mainpc = "idle" /\ timer_active /\ now >= nextPoll)
    /\ ~(mainpc = "joining" /\ (~ThreadAlive \/ now - joinStart >= JOIN_TIMEOUT))
    /\ now' = now + 1
    /\ ret' = None
    /\ last' = "other"
    /\ NoConnSignal(FALSE, FALSE)
    /\ UNCHANGED <<kind, timeout_ms, decoderVars, running, bus, thread, timer_active,
                   nextPoll, readerPc, rxq, mainpc, joinStart, mockVars, simVars, smVars, conv, appPc,
                   cycleWhileDown>>

canOnly == <<now, decoderVars, running, bus, thread, nextPoll, readerPc, rxq,
             mainpc, joinStart, cycleWhileDown>>

\* ----------------------------------------------------------- the simulator
\* MockDataSource, in scaled integers: throttle 0.01 %, rpm 1 rpm, gear
\* ratios 0.001, time ms, afr 0.01, lambda_value 1/1470 (so that
\* lambda_value = afr / 14.7 reads lambda_value = afr), injector_duty 0.01 %.
\* Divisions round down.  _time enters the simulation only through the sine
\* cycle of _update_throttle, which is an input here, and is not tracked; nor
\* are the fuel level, the temperatures, the pressures and the other fields
\* _generate_data computes.
GEAR_RATIOS == <<3827, 2360, 1685, 1312, 1000, 793>>
IDLE_RPM == 850
REDLINE_RPM == 7200
REV_LIMIT_RPM == 7500
UPSHIFT_RPM == 6800
DOWNSHIFT_RPM == 2500

Max(a, b) == IF a >= b THEN a ELSE b

\* update_rate_hz values the source is constructed with
UpdateRates == {1}

\* MockDataSource.__init__: the simulation fields
SimInitFields ==
    /\ update_interval \in {1000 \div hz : hz \in UpdateRates}
    /\ sim = [gear |-> 1, rpm |-> IDLE_RPM, throttle |-> 0,
              accelerating |-> TRUE]
    /\ mock_state = Null
    /\ pre_shift = IDLE_RPM

\* _update_throttle.  d holds the outcomes of the tick's random draws:
\* d.brake, d.flip and d.resume say whether random.random() fell under 0.002,
\* 0.015 and resume_chance, d.target is 70 + cycle * 30 (any value the sine
\* cycle can give it).
update_throttle(s, iv, d) ==
    LET b == IF d.brake THEN [s EXCEPT !.accelerating = FALSE, !.throttle = 0]
             ELSE s
    IN IF b.accelerating
       THEN LET th == Min(10000, b.throttle + (150 * iv) \div 10)
            IN [b EXCEPT !.throttle = th,
                         !.accelerating = ~(th >= d.target /\ d.flip)]
       ELSE LET th == IF b.throttle > 5000
                      THEN Max(0, b.throttle - (300 * iv) \div 10)
                      ELSE Max(0, b.throttle - (150 * iv) \div 10)
            IN [b EXCEPT !.throttle = th,
                         !.accelerating = (th <= 1500 /\ d.resume)]

\* _update_rpm: the noise is added after the clamps
update_rpm(s, iv, noise) ==
    LET r == IF s.throttle > 5000
             THEN Min(REV_LIMIT_RPM,
                      s.rpm + ((s.throttle - 3000) * 15 * iv) \div 100000)
             ELSE IF s.throttle > 1000
             THEN s.rpm + ((IDLE_RPM + s.throttle * 2 - s.rpm) * iv * 2) \div 1000
             ELSE Max(IDLE_RPM, s.rpm - (800 * iv) \div 1000)
    IN [s EXCEPT !.rpm = r + noise]

\* _shift_up raises KeyError when GEAR_RATIOS has no entry for old_gear
shift_up_raises(s) == s.gear < 6 /\ s.gear \notin DOMAIN GEAR_RATIOS

\* _shift_up; when it raises, self._gear has been incremented already
shift_up(s) ==
    IF s.gear < 6
    THEN IF shift_up_raises(s)
         THEN [s EXCEPT !.gear = s.gear + 1]
         ELSE [s EXCEPT !.gear = s.gear + 1,
                        !.rpm = (s.rpm * GEAR_RATIOS[s.gear + 1])
                                    \div GEAR_RATIOS[s.gear]]
    ELSE s

\* _shift_down without the rpm rise
shift_down_keep_rpm(s) ==
    IF s.gear > 1 THEN [s EXCEPT !.gear = s.gear - 1] ELSE s

\* _shift_down
shift_down(s) ==
    IF s.gear > 1
    THEN [s EXCEPT !.gear = s.gear - 1,
                   !.rpm = Min((s.rpm * GEAR_RATIOS[s.gear - 1])
                                   \div GEAR_RATIOS[s.gear], REDLINE_RPM)]
    ELSE s

check_gear_change_no_top(s) ==
    IF s.rpm >= UPSHIFT_RPM
    THEN [s EXCEPT !.gear = s.gear + 1,
                   !.rpm = (s.rpm * GEAR_RATIOS[Min(6, s.gear + 1)])
                               \div GEAR_RATIOS[Min(6, s.gear)]]
    ELSE IF s.rpm <= DOWNSHIFT_RPM /\ s.gear > 1 /\ s.throttle < 3000
    THEN shift_down(s)
    ELSE s

\* _check_gear_change
check_gear_change(s) ==
    IF s.rpm >= UPSHIFT_RPM /\ s.gear < 6 THEN shift_up(s)
    ELSE IF s.rpm <= DOWNSHIFT_RPM /\ s.gear > 1 /\ s.throttle < 3000
    THEN shift_down(s)
    ELSE s

\* _check_gear_change raises what _shift_up raises
check_gear_change_raises(s) ==
    s.rpm >= UPSHIFT_RPM /\ s.gear < 6 /\ shift_up_raises(s)

\* _calculate_speed, in 0.1 km/h: rpm * 2.0 / (ratio * 3.538 * 60) * 3.6
calculate_speed(s) ==
    IF s.gear <= 0 THEN 0
    ELSE LET ratio == IF s.gear \in DOMAIN GEAR_RATIOS THEN GEAR_RATIOS[s.gear]
                      ELSE 1000
         IN Max(0, (s.rpm * 18000) \div ((ratio * 5307) \div 100))

\* set_gear
set_gear(gear) == Max(0, Min(6, gear))

\* _calculate_afr; n in {-1, 0, 1} is where random.uniform fell in its range
calculate_afr(throttle, n) ==
    IF throttle > 8000 THEN 1150 + n * 30
    ELSE IF throttle > 3000 THEN 1350 + n * 30
    ELSE 1470 + n * 20

\* _calculate_injector_duty
calculate_injector_duty(rpm, throttle, n) ==
    Min(9500, (rpm * 5000) \div REDLINE_RPM + (throttle * 40) \div 100 + n * 200)

\* _generate_data: the simulation after the tick, the rpm its gear check
\* found, whether the gear check raised, and the state the tick builds when
\* it gets that far.  s1, s2 and s3 are the simulation after _update_throttle,
\* after _update_rpm and after _check_gear_change; each is bound in a
\* one-element set so that it is computed once.
generate_data(s, iv, d) ==
    LET built(s2, s3) ==
            [sim |-> s3,
             pre |-> s2.rpm,
             raised |-> check_gear_change_raises(s2),
             state |-> [rpm |-> s3.rpm,
                        speed |-> calculate_speed(s3),
                        gear |-> s3.gear,
                        afr |-> calculate_afr(s3.throttle, d.afr),
                        lambda_value |-> calculate_afr(s3.throttle, d.lam),
                        tps |-> s3.throttle,
                        injector_duty |->
                            calculate_injector_duty(s3.rpm, s3.throttle, d.duty)]]
        shifted(s2) ==
            CHOOSE g \in {built(s2, s3) : s3 \in {check_gear_change(s2)}} : TRUE
        revved(s1) ==
            CHOOSE g \in {shifted(s2) : s2 \in {update_rpm(s1, iv, d.rpm_noise)}} :
                TRUE
    IN CHOOSE g \in {revved(s1) : s1 \in {update_throttle(s, iv, d)}} : TRUE

Draw(brake, target, flip, resume, rpm_noise, afr, lam, duty) ==
    [brake |-> brake, target |-> target, flip |-> flip, resume |-> resume,
     rpm_noise |-> rpm_noise, afr |-> afr, lam |-> lam, duty |-> duty]

\* a tick on which every random draw falls in the middle of its range
QuietDraws == {Draw(FALSE, 10000, FALSE, FALSE, 0, 0, 0, 0)}

\* the outcomes of the random draws of one tick
SimDraws ==
    {Draw(b, t, f, r, n, 0, 0, 0) :
        b \in BOOLEAN, t \in {10000}, f \in BOOLEAN, r \in BOOLEAN,
        n \in {-20, 0, 20}}

\* EngineSoundSynthesizer.start(): threads alive afterwards
es_start(n) == n + 1

\* MockDataSource.start()
MockStart ==
    /\ kind = "mock"
    /\ sound => audioThreads < MaxAudio
    /\ timer_active' = TRUE
    /\ SetConnected(TRUE, FALSE, FALSE)
    /\ IF sound
       THEN /\ es_running' = TRUE
            /\ audioThreads' = es_start(audioThreads)
       ELSE UNCHANGED <<es_running, audioThreads>>
    /\ ret' = None
    /\ last' = IF timer_active THEN "start_again" ELSE "start"
    /\ UNCHANGED <<kind, timeout_ms, sound, canOnly, simVars, smVars, conv>>

\* MockDataSource.stop()
MockStop ==
    /\ kind = "mock"
    /\ timer_active' = FALSE
    /\ SetConnected(FALSE, FALSE, FALSE)
    /\ es_running' = IF sound THEN FALSE ELSE es_running
    /\ ret' = None
    /\ last' = IF timer_active THEN "stop" ELSE "stop_again"
    /\ UNCHANGED <<kind, timeout_ms, sound, audioThreads, canOnly, simVars, smVars, conv>>

\* MockDataSource._generate_data, called by the timer
MockGenerate(d) ==
    /\ kind = "mock" /\ timer_active
    /\ \E g \in {generate_data(sim, update_interval, d)} :
          /\ sim' = g.sim
          /\ pre_shift' = g.pre
          /\ mock_state' = IF g.raised THEN mock_state ELSE g.state
          /\ NoConnSignal(~g.raised, FALSE)
          /\ last' = IF g.raised THEN "tick_raised" ELSE "other"
    /\ ret' = None
    /\ UNCHANGED <<kind, timeout_ms, timer_active, mockVars, canOnly, update_interval,
                   smVars, conv, appPc>>

\* _audio_loop: an audio thread finds _running false and ends
AudioExit ==
    /\ kind = "mock" /\ audioThreads > 0 /\ ~es_running
    /\ audioThreads' = audioThreads - 1
    /\ NoConnSignal(FALSE, FALSE)
    /\ ret' = None
    /\ last' = "other"
    /\ UNCHANGED <<kind, timeout_ms, timer_active, sound, es_running, canOnly, simVars, smVars, conv,
                   appPc>>

SrcInit ==
    /\ DecFields
    /\ SrcInitFields
    /\ timeout_ms = CAN_TIMEOUT_MS
    /\ kind \in {"can", "mock"}
    /\ sound \in BOOLEAN
    /\ kind = "can" => ~sound
    /\ SimInitFields
    /\ configs = Null /\ filters = Null /\ sm_result = Null /\ conv = Null
    /\ appPc = "none"

SrcNext ==
    \/ CanStart /\ UNCHANGED appPc
    \/ CanStop /\ UNCHANGED appPc
    \/ CanStopJoined
    \/ \E t \in Tids : ReaderCheck(t)
    \/ \E t \in Tids : ReaderFrame(t)
    \/ \E t \in Tids : ReaderIdle(t)
    \/ \E t \in Tids : ReaderError(t)
    \/ EcuCycle
    \/ CheckTimeout
    \/ Tick
    \/ MockStart /\ UNCHANGED appPc
    \/ MockStop /\ UNCHANGED appPc
    \/ \E d \in QuietDraws : MockGenerate(d)
    \/ AudioExit

SpecSrc == SrcInit /\ [][SrcNext]_vars

\* CANDataSource(timeout_ms=...): the live source built with a timeout of its
\* own
Timeouts == {5, 20}

TimeoutInit ==
    /\ DecFields
    /\ SrcInitFields
    /\ timeout_ms \in Timeouts
    /\ kind = "can"
    /\ sound = FALSE
    /\ SimInitFields
    /\ configs = Null /\ filters = Null /\ sm_result = Null /\ conv = Null
    /\ appPc = "none"

TimeoutNext ==
    \/ CanStart /\ UNCHANGED appPc
    \/ CanStop /\ UNCHANGED appPc
    \/ CanStopJoined
    \/ \E t \in Tids : ReaderCheck(t)
    \/ \E t \in Tids : ReaderFrame(t)
    \/ \E t \in Tids : ReaderIdle(t)
    \/ \E t \in Tids : ReaderError(t)
    \/ EcuCycle
    \/ CheckTimeout
    \/ Tick

SpecTimeout == TimeoutInit /\ [][TimeoutNext]_vars

\* ========================================================== the application

\* DashboardApp._init_data_source: the source the application constructs.
\* ctor_raises: CANDataSource(...) raises (any exception)
init_data_source(use_mock, can_enabled, can_available, ctor_raises) ==
    IF use_mock THEN "mock"
    ELSE IF can_enabled /\ can_available
    THEN IF ctor_raises THEN "mock" ELSE "can"
    ELSE "mock"

\* DashboardApp.__init__ and run(): no data source yet
AppInit ==
    /\ DecFields
    /\ SrcInitFields
    /\ timeout_ms = CAN_TIMEOUT_MS
    /\ kind = "none"
    /\ sound = FALSE
    /\ SimInitFields
    /\ configs = Null /\ filters = Null /\ sm_result = Null /\ conv = Null
    /\ appPc = "created"

\* DashboardApp._init_data_source, 100 ms into the splash screen
InitDataSource ==
    /\ appPc = "created"
    /\ appPc' = "source"
    /\ \E use_mock \in BOOLEAN, can_enabled \in BOOLEAN,
          can_available \in BOOLEAN, ctor_raises \in BOOLEAN :
          kind' = init_data_source(use_mock, can_enabled, can_available,
                                   ctor_raises)
    /\ \E audio \in BOOLEAN : sound' = (kind' = "mock" /\ audio)
    /\ ret' = None
    /\ last' = "other"
    /\ NoConnSignal(FALSE, FALSE)
    /\ UNCHANGED <<canOnly, timeout_ms, timer_active, es_running, audioThreads,
                   simVars, smVars, conv>>

\* DashboardApp._on_splash_finished: the window is created and
\* window.start_data() starts the source
SplashFinished ==
    /\ appPc = "source"
    /\ appPc' = "started"
    /\ CanStart \/ MockStart

\* DashboardWindow.closeEvent: stop_data() stops the source
CloseEvent ==
    /\ appPc = "started"
    /\ appPc' = "closed"
    /\ CanStop \/ MockStop

AppNext ==
    \/ InitDataSource
    \/ SplashFinished
    \/ CloseEvent
    \/ CanStopJoined
    \/ \E t \in Tids : ReaderCheck(t)
    \/ \E t \in Tids : ReaderFrame(t)
    \/ \E t \in Tids : ReaderIdle(t)
    \/ \E t \in Tids : ReaderError(t)
    \/ EcuCycle
    \/ CheckTimeout
    \/ Tick
    \/ \E d \in QuietDraws : MockGenerate(d)
    \/ AudioExit

SpecApp == AppInit /\ [][AppNext]_vars

\* ------------------------------------------------- the simulator on its own
\* a mock source without sound, constructed and started
SimInit ==
    /\ DecFields
    /\ SrcInitFields
    /\ timeout_ms = CAN_TIMEOUT_MS
    /\ kind = "mock"
    /\ sound = FALSE
    /\ SimInitFields
    /\ configs = Null /\ filters = Null /\ sm_result = Null /\ conv = Null
    /\ appPc = "none"

SimNext ==
    \/ ~timer_active /\ MockStart /\ UNCHANGED appPc
    \/ \E d \in SimDraws : MockGenerate(d)

SpecSim == SimInit /\ [][SimNext]_vars

\* source.set_gear(gear)
SetGear(gear) ==
    /\ kind = "mock"
    /\ sim' = [sim EXCEPT !.gear = set_gear(gear)]
    /\ NoConnSignal(FALSE, FALSE)
    /\ ret' = None
    /\ last' = "other"
    /\ UNCHANGED <<kind, timeout_ms, timer_active, mockVars, canOnly,
                   update_interval, mock_state, pre_shift, smVars, conv, appPc>>

Gears == {-1, 0, 3, 7}

\* the throttle held open (QuietDraws) or closed by a braking event
GearDraws == QuietDraws \cup {Draw(TRUE, 10000, FALSE, FALSE, 0, 0, 0, 0)}

\* the simulator running while a test sets its gear
GearNext ==
    \/ ~timer_active /\ MockStart /\ UNCHANGED appPc
    \/ \E g \in Gears : SetGear(g)
    \/ \E d \in GearDraws : MockGenerate(d)

SpecGear == SimInit /\ [][GearNext]_vars

\* ============================================================= the smoother
\* ValueSmoother and ExponentialMovingAverage.  alpha is in units of 0.01; a
\* smoothed value is the exact rational num / 100^n, n being the number of
\* averaging steps it went through.
Channels == {"rpm", "map_kpa"}
Alphas == {0, 50, 150}
Values == {10, 30}

\* DEFAULT_ALPHAS.get(channel, 0.3)
default_alpha(channel) == IF channel = "rpm" THEN 8 ELSE 30

\* not 0.0 < alpha <= 1.0 raises ValueError
valid_alpha(a) == 0 < a /\ a <= 100

RECURSIVE Pow100(_)
Pow100(n) == IF n = 0 THEN 1 ELSE 100 * Pow100(n - 1)

Raw(value) == [num |-> value, n |-> 0]

\* ExponentialMovingAverage.update on an initialized filter
ema_update(f, value) ==
    [f EXCEPT !.num = f.alpha * value * Pow100(f.n) + (100 - f.alpha) * f.num,
              !.n = f.n + 1]

\* ValueSmoother.configure: the smoother after the call, and whether the call
\* raised ValueError (from the alpha setter of an existing filter)
configure(cf, fl, channel, has_alpha, alpha, enabled) ==
    LET a == IF has_alpha THEN alpha ELSE default_alpha(channel)
        cf1 == [cf EXCEPT ![channel] = [alpha |-> a, enabled |-> enabled]]
    IN IF fl[channel] # Null
       THEN IF valid_alpha(a)
            THEN [configs |-> cf1, filters |-> [fl EXCEPT ![channel].alpha = a],
                  raised |-> FALSE]
            ELSE [configs |-> cf1, filters |-> fl, raised |-> TRUE]
       ELSE [configs |-> cf1, filters |-> fl, raised |-> FALSE]

\* ValueSmoother.update: the smoother after the call, whether it raised
\* (ExponentialMovingAverage.__init__ on an invalid alpha) and what it returned
update(cf, fl, channel, value) ==
    LET c0 == IF cf[channel] = Null
              THEN configure(cf, fl, channel, FALSE, 0, TRUE)
              ELSE [configs |-> cf, filters |-> fl, raised |-> FALSE]
        config == c0.configs[channel]
    IN IF c0.raised
       THEN [configs |-> c0.configs, filters |-> c0.filters, raised |-> TRUE,
             ret |-> Null]
       ELSE IF ~config.enabled
       THEN [configs |-> c0.configs, filters |-> c0.filters, raised |-> FALSE,
             ret |-> Raw(value)]
       ELSE IF c0.filters[channel] = Null
       THEN IF valid_alpha(config.alpha)
            THEN [configs |-> c0.configs,
                  filters |-> [c0.filters EXCEPT ![channel] =
                                 [alpha |-> config.alpha, num |-> value, n |-> 0]],
                  raised |-> FALSE, ret |-> Raw(value)]
            ELSE [configs |-> c0.configs, filters |-> c0.filters,
                  raised |-> TRUE, ret |-> Null]
       ELSE LET f == ema_update(c0.filters[channel], value)
            IN [configs |-> c0.configs,
                filters |-> [c0.filters EXCEPT ![channel] = f],
                raised |-> FALSE, ret |-> [num |-> f.num, n |-> f.n]]

\* everything outside the smoother
notSmoother == <<decVars, srcVars, simVars, conv, appPc>>

\* ValueSmoother(): __post_init__
SmInit ==
    /\ DecFields
    /\ SrcInitFields
    /\ timeout_ms = CAN_TIMEOUT_MS
    /\ kind = "none"
    /\ sound = FALSE
    /\ update_interval = 0 /\ sim = Null /\ mock_state = Null
    /\ pre_shift = Null
    /\ appPc = "none"
    /\ configs = [c \in Channels |-> Null]
    /\ filters = [c \in Channels |-> Null]
    /\ sm_result = [op |-> "init", valid |-> TRUE, raised |-> FALSE, ret |-> Null]
    /\ conv = Null

\* smoother.configure(channel, alpha, enabled); alpha is None when ~has_alpha
SmConfigure(channel, has_alpha, alpha, enabled) ==
    LET r == configure(configs, filters, channel, has_alpha, alpha, enabled)
    IN /\ configs' = r.configs
       /\ filters' = r.filters
       /\ sm_result' = [op |-> "configure",
                        valid |-> (has_alpha => valid_alpha(alpha)),
                        raised |-> r.raised, ret |-> Null]
       /\ UNCHANGED notSmoother

\* smoother.update(channel, value)
SmUpdate(channel, value) ==
    /\ filters[channel] # Null => filters[channel].n < MaxEma
    /\ LET r == update(configs, filters, channel, value)
       IN /\ configs' = r.configs
          /\ filters' = r.filters
          /\ sm_result' = [op |-> "update", valid |-> TRUE,
                           raised |-> r.raised, ret |-> r.ret]
    /\ UNCHANGED notSmoother

\* smoother.reset(channel)
SmReset(channel) ==
    /\ filters' = [filters EXCEPT ![channel] = Null]
    /\ sm_result' = [op |-> "reset", valid |-> TRUE, raised |-> FALSE,
                     ret |-> Null]
    /\ UNCHANGED <<configs, notSmoother>>

\* smoother.reset()
SmResetAll ==
    /\ filters' = [c \in Channels |-> Null]
    /\ sm_result' = [op |-> "reset", valid |-> TRUE, raised |-> FALSE,
                     ret |-> Null]
    /\ UNCHANGED <<configs, notSmoother>>

SmNext ==
    \/ \E c \in Channels, a \in Alphas, e \in BOOLEAN : SmConfigure(c, TRUE, a, e)
    \/ \E c \in Channels, e \in BOOLEAN : SmConfigure(c, FALSE, 0, e)
    \/ \E c \in Channels, v \in Values : SmUpdate(c, v)
    \/ \E c \in Channels : SmReset(c)
    \/ SmResetAll

SpecSmoother == SmInit /\ [][SmNext]_vars

\* ------------------------------------------------------------ UnitConverter
\* Python floats are modelled by exact rationals num / den over natural
\* numbers of any size, kept as sequences of base-10000 digits, the least
\* significant first.  The rounding of a double (a relative 2^-53 per
\* operation) is not modelled.  Quantities are not negative.
RECURSIVE nat_norm(_)
nat_norm(a) ==
    IF a # <<>> /\ a[Len(a)] = 0 THEN nat_norm(SubSeq(a, 1, Len(a) - 1)) ELSE a

\* a * k + c for one digit k
RECURSIVE nat_scale(_, _, _)
nat_scale(a, k, c) ==
    IF a = <<>>
    THEN IF c = 0 THEN <<>> ELSE <<c>>
    ELSE LET p == Head(a) * k + c
         IN <<p % 10000>> \o nat_scale(Tail(a), k, p \div 10000)

RECURSIVE nat_add(_, _, _)
nat_add(a, b, c) ==
    IF a = <<>> /\ b = <<>>
    THEN IF c = 0 THEN <<>> ELSE <<c>>
    ELSE LET x == IF a = <<>> THEN 0 ELSE Head(a)
             y == IF b = <<>> THEN 0 ELSE Head(b)
             s == x + y + c
         IN <<s % 10000>> \o nat_add(IF a = <<>> THEN <<>> ELSE Tail(a),
                                     IF b = <<>> THEN <<>> ELSE Tail(b),
                                     s \div 10000)

\* a - b - c for a >= b + c
RECURSIVE nat_sub(_, _, _)
nat_sub(a, b, c) ==
    IF a = <<>>
    THEN <<>>
    ELSE LET y == IF b = <<>> THEN 0 ELSE Head(b)
             d == Head(a) - y - c
         IN <<d % 10000>> \o nat_sub(Tail(a),
                                     IF b = <<>> THEN <<>> ELSE Tail(b),
                                     IF d < 0 THEN 1 ELSE 0)

\* a * k for an integer k >= 0
RECURSIVE nat_mul(_, _)
nat_mul(a, k) ==
    IF k = 0 \/ a = <<>>
    THEN <<>>
    ELSE nat_norm(nat_add(nat_scale(a, k % 10000, 0),
                          <<0>> \o nat_mul(a, k \div 10000), 0))

RECURSIVE nat_leq(_, _)
nat_leq(a, b) ==
    IF Len(a) # Len(b) THEN Len(a) < Len(b)
    ELSE IF a = <<>> THEN TRUE
    ELSE IF a[Len(a)] # b[Len(b)] THEN a[Len(a)] < b[Len(b)]
    ELSE nat_leq(SubSeq(a, 1, Len(a) - 1), SubSeq(b, 1, Len(b) - 1))

\* float(n), r * (k / d), r + n and r - n
Float(n) == [num |-> nat_mul(<<1>>, n), den |-> <<1>>]
fl_mul(r, k, d) == [num |-> nat_mul(r.num, k), den |-> nat_mul(r.den, d)]
fl_add(r, n) == [num |-> nat_add(r.num, nat_mul(r.den, n), 0), den |-> r.den]
fl_sub(r, n) ==
    [num |-> nat_norm(nat_sub(r.num, nat_mul(r.den, n), 0)), den |-> r.den]

\* the conversion factors, as decimal fractions k / d
KMH_TO_MPH == [k |-> 621371, d |-> 1000000]
MPH_TO_KMH == [k |-> 160934, d |-> 100000]
BAR_TO_PSI == [k |-> 145038, d |-> 10000]
PSI_TO_BAR == [k |-> 689476, d |-> 10000000]
BAR_TO_KPA == [k |-> 100, d |-> 1]
KPA_TO_BAR == [k |-> 1, d |-> 100]

SpeedUnits == {"mph", "km/h"}
TempUnits == {"c", "f"}
PressureUnits == {"bar", "psi", "kpa"}
Quantities == {1, 37, 100, 250}

convert_speed(speed_unit, kmh) ==
    IF speed_unit = "mph" THEN fl_mul(kmh, KMH_TO_MPH.k, KMH_TO_MPH.d) ELSE kmh

speed_to_internal(speed_unit, value) ==
    IF speed_unit = "mph" THEN fl_mul(value, MPH_TO_KMH.k, MPH_TO_KMH.d)
    ELSE value

convert_temperature(temp_unit, celsius) ==
    IF temp_unit = "f" THEN fl_add(fl_mul(fl_mul(celsius, 9, 1), 1, 5), 32)
    ELSE celsius

temperature_to_internal(temp_unit, value) ==
    IF temp_unit = "f" THEN fl_mul(fl_mul(fl_sub(value, 32), 5, 1), 1, 9)
    ELSE value

convert_pressure(pressure_unit, bar) ==
    IF pressure_unit = "psi" THEN fl_mul(bar, BAR_TO_PSI.k, BAR_TO_PSI.d)
    ELSE IF pressure_unit = "kpa" THEN fl_mul(bar, BAR_TO_KPA.k, BAR_TO_KPA.d)
    ELSE bar

pressure_to_internal(pressure_unit, value) ==
    IF pressure_unit = "psi" THEN fl_mul(value, PSI_TO_BAR.k, PSI_TO_BAR.d)
    ELSE IF pressure_unit = "kpa" THEN fl_mul(value, KPA_TO_BAR.k, KPA_TO_BAR.d)
    ELSE value

\* everything outside the converter
notConverter == <<decVars, srcVars, simVars, smVars, appPc>>

\* UnitConverter(speed, temperature, pressure)
ConvInit ==
    /\ DecFields
    /\ SrcInitFields
    /\ timeout_ms = CAN_TIMEOUT_MS
    /\ kind = "none"
    /\ sound = FALSE
    /\ update_interval = 0 /\ sim = Null /\ mock_state = Null
    /\ pre_shift = Null
    /\ configs = Null /\ filters = Null /\ sm_result = Null
    /\ appPc = "none"
    /\ \E s \in SpeedUnits, t \in TempUnits, p \in PressureUnits :
          conv = [speed_unit |-> s, temp_unit |-> t, pressure_unit |-> p,
                  op |-> "init", x |-> 0, shown |-> Null, back |-> Null]

\* speed_to_internal(convert_speed(x))
RoundTripSpeed(x) ==
    LET shown == convert_speed(conv.speed_unit, Float(x))
    IN /\ conv' = [conv EXCEPT !.op = "speed", !.x = x, !.shown = shown,
                     !.back = speed_to_internal(conv.speed_unit, shown)]
       /\ UNCHANGED notConverter

\* temperature_to_internal(convert_temperature(x))
RoundTripTemperature(x) ==
    LET shown == convert_temperature(conv.temp_unit, Float(x))
    IN /\ conv' = [conv EXCEPT !.op = "temperature", !.x = x, !.shown = shown,
                     !.back = temperature_to_internal(conv.temp_unit, shown)]
       /\ UNCHANGED notConverter

\* pressure_to_internal(convert_pressure(x))
RoundTripPressure(x) ==
    LET shown == convert_pressure(conv.pressure_unit, Float(x))
    IN /\ conv' = [conv EXCEPT !.op = "pressure", !.x = x, !.shown = shown,
                     !.back = pressure_to_internal(conv.pressure_unit, shown)]
       /\ UNCHANGED notConverter

ConvNext ==
    \/ \E x \in Quantities : RoundTripSpeed(x)
    \/ \E x \in Quantities : RoundTripTemperature(x)
    \/ \E x \in Quantities : RoundTripPressure(x)

SpecUnits == ConvInit /\ [][ConvNext]_vars

\* ===================================================================== claims

\* C1: an in-range 8-byte frame makes process_message return a state exactly
\* when it brings the distinct indices accepted since the last clear (reset,
\* construction or the previous completion) to all 8; every other such frame
\* returns None.
C1_EmitIffCycleComplete ==
    last = "accepted" => ((ret # None) <=> (cycleSeen = Indices))

C1_Witness == ret # None /\ last = "accepted" /\ cycleSeen = Indices

\* C2: a frame whose id is outside [base_id, base_id+8) returns None and
\* leaves the seen-set, the in-progress state and last_complete_time as
\* they were.
C2_ForeignIdIgnored ==
    [][last' \in {"bad_id", "bad_id_dlc"}
         => /\ ret' = None
            /\ frame_data' = frame_data
            /\ state' = state
            /\ heap'[state'] = heap[state]
            /\ last_complete_time' = last_complete_time]_vars

C2_Witness == last = "bad_id" /\ frame_data # {} /\ last_state # None

\* C3: a payload whose length is not 8 returns None whatever the id, records
\* no index and changes no field of the in-progress state.
C3_BadLengthIgnored ==
    [][last' \in {"bad_dlc", "bad_id_dlc"}
         => /\ ret' = None
            /\ frame_data' = frame_data
            /\ state' = state
            /\ heap'[state'] = heap[state]
            /\ last_complete_time' = last_complete_time]_vars

C3_Witness == last = "bad_dlc" /\ frame_data # {} /\ last_state # None

\* the fields each frame index writes
FieldsOf(i) ==
    CASE i = 0 -> {"rpm", "tps", "intake_temp", "map_kpa", "boost_pressure"}
      [] i = 1 -> {"lambda_target", "lambda_value", "fuel_pressure", "afr",
                   "injector_duty"}
      [] i = 2 -> {"speed", "gear", "ignition_angle", "battery_voltage"}
      [] i = 3 -> {"coolant_temp", "oil_temp"}
      [] i = 4 -> {"oil_pressure", "egt1", "egt2"}
      [] i = 5 -> {"flags", "warnings"}
      [] OTHER -> {}
DataFields == DOMAIN VehicleState(0) \ {"timestamp"}

\* C4: a cycle completion clears the seen-set and carries every field value
\* into the next cycle; a field changes only when an accepted frame of its own
\* index is decoded (the timestamp: only when a completion stamps it) or on reset.
C4_FieldsPersist ==
    [][/\ last' # "reset" => state' = state
       /\ last' \notin {"reset", "accepted"} => heap'[state'] = heap[state]
       /\ last' = "accepted" =>
            \A f \in FieldFrames :
               ProcessMessage(f.id, f.data) =>
                 /\ \A g \in DataFields \ FieldsOf(f.id - BASE_ID) :
                        heap'[state'][g] = heap[state][g]
                 /\ heap'[state'].timestamp =
                        IF ret' # None THEN now ELSE heap[state].timestamp
                 /\ ret' # None => frame_data' = {}]_vars

\* in the cycle after a completion, speed still holds the decoded value of the
\* previous cycle while rpm has already been overwritten
C4_Witness ==
    /\ emittedSnap # Null /\ sinceReset = Indices
    /\ 2 \notin frame_data /\ heap[state].speed = 1000
    /\ 0 \in frame_data /\ heap[state].rpm = 0 /\ emittedSnap.rpm = 1000

\* C5: a state that was returned keeps the field values it was returned
\* with, whatever frames are processed and whatever resets happen afterwards.
C5_ReturnedStateIsCopy ==
    last_state # None => heap[last_state] = emittedSnap

\* a frame of the next cycle has changed the decoder's rpm after the return
C5_Witness ==
    /\ last_state # None /\ frame_data # {}
    /\ heap[state].rpm # heap[last_state].rpm
    /\ heap[state].timestamp = heap[last_state].timestamp

\* C6: right after reset() the seen-set is empty and every field is at its
\* default, and a state is only returned once all 8 indices have been accepted
\* since the reset.
C6_ResetStartsOver ==
    /\ last = "reset" => frame_data = {} /\ heap[state] = VehicleState(now)
    /\ ret # None => sinceReset = Indices

\* reset after a cycle completed and another one was in progress
C6_Witness ==
    /\ last = "reset" /\ emittedSnap # Null /\ emittedSnap.rpm = 1000
    /\ now > emittedSnap.timestamp

\* C7: is_receiving is false (and time_since_last_complete infinite) before the
\* first completed cycle, true right after a completing frame, and false once
\* 1.0 s has passed since the last completion.
C7_ReceivingWindow ==
    /\ doneAt = -1 => ~is_receiving /\ time_since_last_complete = INF
    /\ ret # None => is_receiving
    /\ (doneAt # -1 /\ now - doneAt >= 10) => ~is_receiving

C7_Witness == doneAt # -1 /\ now - doneAt >= 10 /\ frame_data # {}

\* C8: connection_changed is emitted once per edge: each event carries the
\* opposite of the one before it, and the first one carries true.
C8_OncePerEdge ==
    [][/\ (emitted'.conn # "none") <=> (connParity' # connParity)
       /\ connParity' # connParity =>
            /\ lastConn' = emitted'.conn
            /\ lastConn' # lastConn
            /\ lastConn = "none" => lastConn' = "true"]_vars

\* a poll has announced the connection again after it had been lost
C8_Witness == kind = "can" /\ last = "poll" /\ emitted.conn = "true"

\* C9: while the live source runs, its timer polls within 100 ms; a poll that
\* finds the source connected with no cycle completed for 1.0 s emits
\* connection_changed(false), a poll that follows a cycle completed while
\* disconnected emits connection_changed(true), and no poll emits an error.
C9_StaleAndRecover ==
    [][/\ (kind = "can" /\ running /\ mainpc = "idle")
            => timer_active /\ nextPoll <= now + 1
       /\ last' = "poll" =>
            /\ (connected /\ (doneAt = -1 \/ now - doneAt >= 10))
                  => emitted'.conn = "false" /\ ~connected'
            /\ (~connected /\ cycleWhileDown)
                  => emitted'.conn = "true" /\ connected'
            /\ ~emitted'.error
            /\ running' /\ thread' = thread /\ bus' = bus]_vars

\* a stream that had been received went stale and the poll reported it
C9_Witness ==
    /\ last = "poll" /\ emitted.conn = "false"
    /\ doneAt # -1 /\ now - doneAt >= 10 /\ running

\* C10: a start() on a source that is already started changes nothing that
\* can be observed: no signal, the same timer, the same threads (the audio
\* thread included), the same bus.
C10_StartIdempotent ==
    [][last' = "start_again" =>
         /\ emitted' = NoSignal
         /\ UNCHANGED <<running, connected, bus, thread, timer_active,
                        readerPc, audioThreads>>]_vars

C12_StopLeavesNothing ==
    [][/\ (last' \in {"stop", "stop_joined"} /\ mainpc' = "idle") =>
            /\ ~connected' /\ ~timer_active' /\ ~running'
            /\ kind = "can" => bus' = None
            /\ \A t \in Tids : readerPc'[t] = "none"
       /\ (kind = "can" /\ ~running /\ mainpc = "idle") => ~emitted'.data
       /\ (kind = "mock" /\ ~timer_active) => ~emitted'.data]_vars

C14_FallbackToMock ==
    appPc = "started" => \/ kind = "can" /\ running
                         \/ kind = "mock" /\ timer_active

\* C15: in every state a producer emits, tps, injector_duty and fuel_level
\* are percentages between 0 and 100.
C15_PercentagesInRange ==
    /\ ret # None =>
          /\ heap[ret].tps \in 0..1000
          /\ heap[ret].injector_duty \in 0..(100 * 120000)
          /\ heap[ret].fuel_level \in 0..100
    /\ mock_state # Null =>
          /\ mock_state.tps \in 0..10000
          /\ mock_state.injector_duty \in 0..10000

\* C16: in every state a producer emits, gear is one of -1, 0, 1, ..., 6.
C16_GearInRange ==
    /\ ret # None => heap[ret].gear \in -1..6
    /\ mock_state # Null => mock_state.gear \in -1..6

\* C17: in every state a producer emits, lambda_value = afr / 14.7.
C17_LambdaFromAfr ==
    /\ ret # None => heap[ret].afr = heap[ret].lambda_value * 147
    /\ mock_state # Null => mock_state.lambda_value = mock_state.afr

\* C18: the simulated RPM, and the rpm of every state the simulator emits,
\* stays within [IDLE_RPM, REV_LIMIT_RPM].
C18_RpmInRange ==
    /\ sim.rpm \in IDLE_RPM..REV_LIMIT_RPM
    /\ mock_state # Null => mock_state.rpm \in IDLE_RPM..REV_LIMIT_RPM

\* C19: the simulated gear, and the gear of every state the simulator emits,
\* stays within 1..6.
C19_GearWithinOneToSix ==
    /\ sim.gear \in 1..6
    /\ mock_state # Null => mock_state.gear \in 1..6

\* a tick in top gear with the RPM at the upshift point: no gear 7
C19_Witness ==
    /\ mock_state # Null /\ mock_state.gear = 6
    /\ sim.gear = 6 /\ sim.rpm >= UPSHIFT_RPM

\* C20: a configure() call with an alpha outside (0, 1] raises, and stores
\* nothing: the configuration and the filters are as they were before.
C20_InvalidAlphaRejected ==
    [][(sm_result'.op = "configure" /\ ~sm_result'.valid) =>
          /\ sm_result'.raised
          /\ configs' = configs
          /\ filters' = filters]_vars

\* C21: an update of an enabled channel that holds no filter returns the input
\* itself and seeds the filter with it; an update of an enabled channel that
\* holds a filter returns alpha * input + (1 - alpha) * previous output.
C21_SeedThenAverage ==
    [][\A c \in Channels, v \in Values :
         (SmUpdate(c, v) /\ (configs[c] = Null \/ configs[c].enabled)) =>
            IF filters[c] = Null
            THEN /\ ~sm_result'.raised
                 /\ sm_result'.ret = Raw(v)
                 /\ filters'[c] # Null
                 /\ filters'[c].num = v
                 /\ filters'[c].n = 0
            ELSE /\ ~sm_result'.raised
                 /\ sm_result'.ret =
                      [num |-> filters[c].alpha * v * Pow100(filters[c].n)
                                 + (100 - filters[c].alpha) * filters[c].num,
                       n |-> filters[c].n + 1]
                 /\ filters'[c].num = sm_result'.ret.num
                 /\ filters'[c].n = sm_result'.ret.n]_vars

\* C22: every round trip through the display unit gives the value back within
\* floating-point tolerance (a relative 1e-9): speed for mph and km/h,
\* temperature for C and F, pressure for bar, psi and kPa.
C22_RoundTrip ==
    conv # Null /\ conv.op # "init" =>
        LET want == nat_mul(conv.back.den, conv.x)
            got == conv.back.num
            diff == IF nat_leq(want, got) THEN nat_norm(nat_sub(got, want, 0))
                    ELSE nat_norm(nat_sub(want, got, 0))
        IN nat_leq(nat_mul(diff, 1000000000), want)

\* C23: the live source's staleness window is its configured timeout_ms: a
\* poll made once no cycle has completed for timeout_ms leaves the source
\* disconnected with is_connected() false, and a poll made earlier does not
\* announce connection_changed(false).
C23_TimeoutIsConfigured ==
    [][(last' = "poll" /\ doneAt # -1) =>
          /\ now - doneAt >= timeout_ms =>
                ~connected' /\ ~(running /\ is_receiving)
          /\ now - doneAt < timeout_ms => emitted'.conn # "false"]_vars

\* C24: decoding frame index 1 sets injector_duty to
\* min(100, pulse_width / (120000 / rpm) * 100) with the rpm the in-progress
\* state holds at that moment, and keeps the previous injector_duty when that
\* rpm is 0; the state a cycle emits carries that injector_duty, whatever rpm
\* frame 0 wrote afterwards.
C24_DutyFromResidentRpm ==
    [][\A f \in FieldFrames :
         (f.id = BASE_ID + 1 /\ ProcessMessage(f.id, f.data)) =>
            /\ heap'[state'].injector_duty =
                  IF heap[state].rpm > 0
                  THEN Min(100 * 120000, U16(f.data, 0) * heap[state].rpm)
                  ELSE heap[state].injector_duty
            /\ heap'[state'].rpm = heap[state].rpm
            /\ ret' # None =>
                  heap'[ret'].injector_duty = heap'[state'].injector_duty]_vars

\* a cycle emitted a state whose rpm is 0 and whose injector_duty was computed
\* from the rpm of 1000 that frame 1 found
C24_Witness ==
    /\ last = "accepted" /\ ret # None
    /\ heap[ret].rpm = 0
    /\ heap[ret].injector_duty = 1000 * 1000

\* C25: on a tick the gear moves by at most one step: up by one exactly when
\* the rpm found after the tick's rpm update is >= 6800 and the gear is below
\* 6, down by one exactly when that rpm is <= 2500, the throttle is below 30 %
\* and the gear is above 1, and not at all otherwise; a shift multiplies the
\* rpm by new_ratio / old_ratio, and the rpm after a downshift is at most 7200.
C25_GearStep ==
    [][(kind = "mock" /\ emitted'.data) =>
          LET up == pre_shift' >= 6800 /\ sim.gear < 6
              down == pre_shift' <= 2500 /\ sim'.throttle < 3000 /\ sim.gear > 1
          IN /\ sim'.gear - sim.gear \in {-1, 0, 1}
             /\ sim'.gear = sim.gear + 1 <=> up
             /\ sim'.gear = sim.gear - 1 <=> down
             /\ sim'.gear # sim.gear =>
                   sim'.rpm = (pre_shift' * GEAR_RATIOS[sim'.gear])
                                  \div GEAR_RATIOS[sim.gear]
             /\ sim'.gear = sim.gear - 1 => sim'.rpm <= 7200
             /\ sim'.gear = sim.gear => sim'.rpm = pre_shift']_vars

\* a tick has just shifted down: the rpm rose across the gear check
C25_Witness ==
    /\ kind = "mock" /\ emitted.data
    /\ pre_shift <= 2500 /\ sim.rpm > pre_shift /\ sim.gear \in 1..5

\* C30: set_gear(g) leaves the gear in 0..6, and every tick after it completes
\* without an error and emits a state; a tick that ends in gear 0 emits a
\* speed of 0.
C30_TicksAfterSetGear ==
    [][/\ \A g \in Gears :
            SetGear(g) => sim'.gear \in 0..6 /\ (g \in 0..6 => sim'.gear = g)
       /\ \A d \in GearDraws :
            MockGenerate(d) =>
               /\ last' # "tick_raised"
               /\ emitted'.data
               /\ sim'.gear = 0 => mock_state'.speed = 0]_vars

\* C26: at most one reader thread is inside _read_loop at any time, whatever
\* the order of the start() and stop() calls, a start() after a stop() whose
\* join timed out included.
C26_SingleReader ==
    Cardinality({t \in Tids : readerPc[t] # "none"}) <= 1

\* C27: once start() has returned, is_connected() stays false until the eight
\* frames of a complete cycle have been received since that start(); a cycle
\* completed before an earlier stop() does not count.
C27_FreshSessionNotConnected ==
    (kind = "can" /\ running /\ sinceReset # Indices) =>
        ~(running /\ is_receiving)

\* C28: for both sources, whenever the `connected` property is true,
\* is_connected() is true.
C28_ConnectedAgrees ==
    connected =>
        IF kind = "can" THEN running /\ is_receiving ELSE timer_active

\* C29: a configure() call that raises for an invalid alpha leaves the
\* channel's stored configuration and its filter as they were before the call.
C29_FailedConfigureChangesNothing ==
    [][(sm_result'.op = "configure" /\ sm_result'.raised) =>
          configs' = configs /\ filters' = filters]_vars
====
